---- MODULE Spec2Model ----
(***************************************************************************)
(* A model of fuzzy-date-ts: the FuzzyDate value type of src/fuzzyDate.ts  *)
(* (construction with hierarchy and calendar validation, precision,        *)
(* earliest/latest padding, string serialization and parsing) and the      *)
(* isEmpty helper of src/util.ts, and the FuzzyDuration value type of      *)
(* src/fuzzyDuration.ts.                                                   *)
(*                                                                         *)
(* JavaScript values of a field are modelled as tagged records: a number,  *)
(* undefined, null or NaN.  Strings are sequences of one-character         *)
(* strings.  Luxon's DateTime is modelled in a fixed-offset zone as a day  *)
(* number (days since 1970-01-01, proleptic Gregorian) and a millisecond   *)
(* of the day.                                                             *)
(***************************************************************************)
EXTENDS Integers, Sequences, FiniteSets

VARIABLES
    options,      \* the options record last handed to the constructor
    self,         \* the fields of the FuzzyDate instance at hand
    exists,       \* TRUE when an instance has been obtained
    op,           \* the last public operation
    thrown,       \* the error the last operation threw, or "none"
    dateString,   \* the argument of the last fromString
    prev,         \* the instance at hand before the last fromString
    prevExists,   \* whether there was one
    retPrecision, \* the value getPrecision returned
    retOptions,   \* the tuple a padding operation returned
    retString,    \* the string toString returned
    durationOptions, \* the options record handed to new FuzzyDuration
    duration      \* the FuzzyDuration instance: its seven fields and precision

vars == <<options, self, exists, op, thrown, dateString, prev, prevExists,
          retPrecision, retOptions, retString, durationOptions, duration>>

----------------------------------------------------------------------------
(* Bounds of the input domain. *)

MaxMonth == 13
MaxDay == 32
MaxHour == 25
MaxMinute == 60
MaxSecond == 60
MaxMillisecond == 1000
\* The year of the host clock, which luxon uses when an object has no year.
NowYear == 2026

----------------------------------------------------------------------------
(* JavaScript values *)

Undefined == [tag |-> "undefined", val |-> 0]
Null == [tag |-> "null", val |-> 0]
NaN == [tag |-> "NaN", val |-> 0]
Num(n) == [tag |-> "number", val |-> n]

IsNum(v) == v.tag = "number"

Fields == <<"year", "month", "day", "hour", "minute", "second", "millisecond">>

Opts(y, mo, d, h, mi, s, ms) ==
    [year |-> y, month |-> mo, day |-> d, hour |-> h, minute |-> mi,
     second |-> s, millisecond |-> ms]

NoOptions == Opts(Undefined, Undefined, Undefined, Undefined, Undefined,
                  Undefined, Undefined)

\* src/util.ts: value === undefined || value === null || Number.isNaN(value)
isEmpty(value) == value = Undefined \/ value = Null \/ value = NaN

\* The ?? operator: the right operand when the left is undefined or null.
Coalesce(value, default) ==
    IF value = Undefined \/ value = Null THEN default ELSE value

\* The + operator of this.year + 1 and month + 1 on a field value:
\* null converts to 0, undefined and NaN give NaN.
PlusOne(value) ==
    CASE IsNum(value) -> Num(value.val + 1)
      [] value = Null -> Num(1)
      [] OTHER -> NaN

----------------------------------------------------------------------------
(* Luxon's DateTime, as far as fuzzyDate.ts uses it. *)

MsPerSecond == 1000
MsPerMinute == 60000
MsPerHour == 3600000
MsPerDay == 86400000

isLeapYear(year) == year % 4 = 0 /\ (year % 100 # 0 \/ year % 400 = 0)

daysInMonth(year, month) ==
    IF month = 2 THEN (IF isLeapYear(year) THEN 29 ELSE 28)
    ELSE IF month \in {4, 6, 9, 11} THEN 30 ELSE 31

\* Days from 1970-01-01 to the civil date (what Date.UTC computes).
DaysFromCivil(y, m, d) ==
    LET yy == IF m <= 2 THEN y - 1 ELSE y
        era == yy \div 400
        yoe == yy - era * 400
        mp == IF m > 2 THEN m - 3 ELSE m + 9
        doy == (153 * mp + 2) \div 5 + d - 1
        doe == yoe * 365 + yoe \div 4 - yoe \div 100 + doy
    IN era * 146097 + doe - 719468

\* The civil date of a day number (what the Date getters compute).
CivilFromDays(z) ==
    LET zz == z + 719468
        era == zz \div 146097
        doe == zz - era * 146097
        yoe == (doe - doe \div 1460 + doe \div 36524 - doe \div 146096) \div 365
        doy == doe - (365 * yoe + yoe \div 4 - yoe \div 100)
        mp == (5 * doy + 2) \div 153
        d == doy - (153 * mp + 2) \div 5 + 1
        m == IF mp < 10 THEN mp + 3 ELSE mp - 9
        y == yoe + era * 400 + (IF m <= 2 THEN 1 ELSE 0)
    IN [year |-> y, month |-> m, day |-> d]

ThrowsDateTime == [kind |-> "throws", day |-> 0, ms |-> 0]
InvalidDateTime == [kind |-> "invalid", day |-> 0, ms |-> 0]

\* A day number and a millisecond count, carried into 0 <= ms < MsPerDay.
Normalize(day, ms) ==
    [kind |-> "valid", day |-> day + ms \div MsPerDay, ms |-> ms % MsPerDay]

\* DateTime.fromObject(obj): undefined and null units are skipped, NaN is
\* refused with InvalidArgumentError; a missing year is the clock's, a missing
\* finer unit its minimum; the date is invalid unless month is in 1..12, day
\* in 1..daysInMonth, hour in 0..23 (or 24:00:00.000), minute and second in
\* 0..59 and millisecond in 0..999.
fromObject(obj) ==
    IF \E i \in 1..7 : obj[Fields[i]] = NaN THEN ThrowsDateTime
    ELSE
      LET year == Coalesce(obj.year, Num(NowYear)).val
          month == Coalesce(obj.month, Num(1)).val
          day == Coalesce(obj.day, Num(1)).val
          hour == Coalesce(obj.hour, Num(0)).val
          minute == Coalesce(obj.minute, Num(0)).val
          second == Coalesce(obj.second, Num(0)).val
          millisecond == Coalesce(obj.millisecond, Num(0)).val
          validHour == hour \in 0..23
                       \/ (hour = 24 /\ minute = 0 /\ second = 0 /\ millisecond = 0)
      IN IF /\ month \in 1..12
            /\ day \in 1..daysInMonth(year, month)
            /\ validHour
            /\ minute \in 0..59
            /\ second \in 0..59
            /\ millisecond \in 0..999
         THEN Normalize(DaysFromCivil(year, month, day),
                        hour * MsPerHour + minute * MsPerMinute
                          + second * MsPerSecond + millisecond)
         ELSE InvalidDateTime

\* dt.plus({days}), dt.plus({hours}), ... and dt.minus({milliseconds}):
\* an invalid DateTime is returned as it is.
\* A variant that adds nothing.
plus_Nothing(dt, days, ms) == dt

plus(dt, days, ms) ==
    IF dt.kind = "valid" THEN Normalize(dt.day + days, dt.ms + ms) ELSE dt

\* A variant that subtracts nothing.
minus_Nothing(dt, ms) == dt

minus(dt, ms) == plus(dt, 0, 0 - ms)

\* A variant whose month getter counts from 0.
toObject_MonthFromZero(dt) ==
    IF dt.kind = "valid"
    THEN Opts(Num(CivilFromDays(dt.day).year),
              Num(CivilFromDays(dt.day).month - 1),
              Num(CivilFromDays(dt.day).day),
              Num(dt.ms \div MsPerHour),
              Num((dt.ms % MsPerHour) \div MsPerMinute),
              Num((dt.ms % MsPerMinute) \div MsPerSecond),
              Num(dt.ms % MsPerSecond))
    ELSE Opts(NaN, NaN, NaN, NaN, NaN, NaN, NaN)

\* The getters dt.year ... dt.millisecond; NaN on an invalid DateTime.
toObject(dt) ==
    IF dt.kind = "valid"
    THEN LET c == CivilFromDays(dt.day)
         IN Opts(Num(c.year), Num(c.month), Num(c.day),
                 Num(dt.ms \div MsPerHour),
                 Num((dt.ms % MsPerHour) \div MsPerMinute),
                 Num((dt.ms % MsPerMinute) \div MsPerSecond),
                 Num(dt.ms % MsPerSecond))
    ELSE Opts(NaN, NaN, NaN, NaN, NaN, NaN, NaN)

----------------------------------------------------------------------------
(* FuzzyDate: construction *)

\* A faulty hierarchy check that looks only at the field after the first
\* empty one.
isOptionsFilledInHierarchy_NextOnly(o) ==
    LET empties == {i \in 1..7 : isEmpty(o[Fields[i]])}
        firstEmptyIndex ==
            IF empties = {} THEN 0
            ELSE CHOOSE i \in empties : \A j \in empties : i <= j
    IN IF firstEmptyIndex = 0 \/ firstEmptyIndex = 7 THEN TRUE
       ELSE isEmpty(o[Fields[firstEmptyIndex + 1]])

isOptionsFilledInHierarchy(o) ==
    LET empties == {i \in 1..7 : isEmpty(o[Fields[i]])}
        firstEmptyIndex ==
            IF empties = {} THEN 0
            ELSE CHOOSE i \in empties : \A j \in empties : i <= j
    IN IF firstEmptyIndex = 0 THEN TRUE
       ELSE \A i \in firstEmptyIndex..7 : isEmpty(o[Fields[i]])

\* The object handed to DateTime.fromObject by isOptionsOnCalendar.
CalendarObject(o) ==
    Opts(o.year, Coalesce(o.month, Num(1)), Coalesce(o.day, Num(1)),
         Coalesce(o.hour, Num(0)), Coalesce(o.minute, Num(0)),
         Coalesce(o.second, Num(0)), Coalesce(o.millisecond, Num(0)))

\* "valid", "invalid", or "throws" when luxon refuses the object.
isOptionsOnCalendar(o) == fromObject(CalendarObject(o)).kind

\* A variant that runs the calendar check before the hierarchy check.
Constructor_CalendarFirst(o) ==
    IF isOptionsOnCalendar(o) = "throws" THEN "InvalidArgumentError"
    ELSE IF isOptionsOnCalendar(o) = "invalid" THEN "FuzzyDateCalendarError"
    ELSE IF ~isOptionsFilledInHierarchy(o) THEN "FuzzyDateHierarchyError"
    ELSE "none"

\* new FuzzyDate(options): the error thrown, or "none".
Constructor(o) ==
    IF ~isOptionsFilledInHierarchy(o) THEN "FuzzyDateHierarchyError"
    ELSE IF isOptionsOnCalendar(o) = "throws" THEN "InvalidArgumentError"
    ELSE IF isOptionsOnCalendar(o) = "invalid" THEN "FuzzyDateCalendarError"
    ELSE "none"

----------------------------------------------------------------------------
(* FuzzyDate: precision and padding *)

\* A variant that counts months and days from 0.
getEarliestPaddingOptions_ZeroBased(this) ==
    Opts(this.year, Coalesce(this.month, Num(0)), Coalesce(this.day, Num(0)),
         Coalesce(this.hour, Num(0)), Coalesce(this.minute, Num(0)),
         Coalesce(this.second, Num(0)), Coalesce(this.millisecond, Num(0)))

getEarliestPaddingOptions(this) ==
    Opts(this.year, Coalesce(this.month, Num(1)), Coalesce(this.day, Num(1)),
         Coalesce(this.hour, Num(0)), Coalesce(this.minute, Num(0)),
         Coalesce(this.second, Num(0)), Coalesce(this.millisecond, Num(0)))

\* A variant that tests the fields for truthiness, so that 0 reads as absent.
getPrecision_Truthy(this) ==
    LET truthy(v) == IsNum(v) /\ v.val # 0
    IN IF truthy(this.millisecond) THEN "millisecond"
       ELSE IF truthy(this.second) THEN "second"
       ELSE IF truthy(this.minute) THEN "minute"
       ELSE IF truthy(this.hour) THEN "hour"
       ELSE IF truthy(this.day) THEN "day"
       ELSE IF truthy(this.month) THEN "month"
       ELSE "year"

getPrecision(this) ==
    IF ~isEmpty(this.millisecond) THEN "millisecond"
    ELSE IF ~isEmpty(this.second) THEN "second"
    ELSE IF ~isEmpty(this.minute) THEN "minute"
    ELSE IF ~isEmpty(this.hour) THEN "hour"
    ELSE IF ~isEmpty(this.day) THEN "day"
    ELSE IF ~isEmpty(this.month) THEN "month"
    ELSE "year"

\* A variant that does not advance the month.
NextMonth_Same(month) == month

\* month + 1 > 12 ? 1 : month + 1
NextMonth(month) == IF month.val + 1 > 12 THEN Num(1) ELSE Num(month.val + 1)

\* A variant that does not carry December into the next year.
NextMonthYear_NoRoll(this) == this.year

\* month + 1 > 12 ? this.year + 1 : this.year
NextMonthYear(this) ==
    IF this.month.val + 1 > 12 THEN PlusOne(this.year) ELSE this.year

\* A variant that stays at the start of the unit.
LatestDateTime_StartOfUnit(this) ==
    fromObject(Opts(this.year,
                    IF isEmpty(this.month) THEN Undefined ELSE this.month,
                    IF isEmpty(this.day) THEN Undefined ELSE this.day,
                    IF isEmpty(this.hour) THEN Undefined ELSE this.hour,
                    IF isEmpty(this.minute) THEN Undefined ELSE this.minute,
                    IF isEmpty(this.second) THEN Undefined ELSE this.second,
                    IF isEmpty(this.millisecond) THEN Undefined
                    ELSE this.millisecond))

\* The DateTime dt that getLatestPaddingOptions computes.
LatestDateTime(this) ==
    LET U == Undefined
    IN IF isEmpty(this.month)
       THEN minus(fromObject(Opts(PlusOne(this.year), U, U, U, U, U, U)), 1)
       ELSE IF isEmpty(this.day)
       THEN minus(fromObject(Opts(NextMonthYear(this), NextMonth(this.month),
                                  U, U, U, U, U)), 1)
       ELSE IF isEmpty(this.hour)
       THEN minus(plus(fromObject(Opts(this.year, this.month, this.day,
                                       U, U, U, U)), 1, 0), 1)
       ELSE IF isEmpty(this.minute)
       THEN minus(plus(fromObject(Opts(this.year, this.month, this.day,
                                       this.hour, U, U, U)), 0, MsPerHour), 1)
       ELSE IF isEmpty(this.second)
       THEN minus(plus(fromObject(Opts(this.year, this.month, this.day,
                                       this.hour, this.minute, U, U)),
                       0, MsPerMinute), 1)
       ELSE IF isEmpty(this.millisecond)
       THEN minus(plus(fromObject(Opts(this.year, this.month, this.day,
                                       this.hour, this.minute, this.second, U)),
                       0, MsPerSecond), 1)
       ELSE fromObject(this)

\* getLatestPaddingOptions(): the error thrown and the tuple returned.
getLatestPaddingOptions(this) ==
    CHOOSE result \in
        {IF dt.kind = "throws"
         THEN [thrown |-> "InvalidArgumentError", value |-> NoOptions]
         ELSE [thrown |-> "none", value |-> toObject(dt)] :
            dt \in {LatestDateTime(this)}} : TRUE

----------------------------------------------------------------------------
(* Strings: sequences of one-character strings. *)

Digits == <<"0", "1", "2", "3", "4", "5", "6", "7", "8", "9">>

IsDigit(c) == \E i \in 1..10 : Digits[i] = c

DigitValue(c) == (CHOOSE i \in 1..10 : Digits[i] = c) - 1

\* Operator arguments are evaluated where they are used; the operators on
\* strings bind theirs once, as the elements of a one-element set.

RECURSIVE NatToString(_)
NatToString(number) ==
    CHOOSE str \in
        {IF n < 10 THEN <<Digits[n + 1]>>
         ELSE NatToString(n \div 10) \o <<Digits[(n % 10) + 1]>> :
            n \in {number}} : TRUE

\* Number.prototype.toString() of an integer.
NumberToString(n) ==
    IF n < 0 THEN <<"-">> \o NatToString(0 - n) ELSE NatToString(n)

\* A variant that cuts a longer string down to its last targetLength
\* characters.
padStart_Truncating(string, targetLength) ==
    CHOOSE padded \in
        {IF Len(str) >= targetLength
         THEN SubSeq(str, Len(str) - targetLength + 1, Len(str))
         ELSE [i \in 1..(targetLength - Len(str)) |-> "0"] \o str :
            str \in {string}} : TRUE

\* String.prototype.padStart(targetLength, '0')
padStart(string, targetLength) ==
    CHOOSE padded \in
        {[i \in 1..(IF Len(str) >= targetLength THEN 0
                    ELSE targetLength - Len(str)) |-> "0"] \o str :
            str \in {string}} : TRUE

\* String.prototype.split(separator) with a one-character separator.
RECURSIVE split(_, _)
split(string, separator) ==
    CHOOSE parts \in
        {IF \A i \in 1..Len(str) : str[i] # separator THEN <<str>>
         ELSE CHOOSE rest \in
                {<<SubSeq(str, 1, k - 1)>>
                   \o split(SubSeq(str, k + 1, Len(str)), separator) :
                    k \in {i \in 1..Len(str) :
                             /\ str[i] = separator
                             /\ \A j \in 1..(i - 1) : str[j] # separator}} :
                TRUE :
            str \in {string}} : TRUE

\* The value of a run of digits.
RECURSIVE DigitsValue(_)
DigitsValue(string) ==
    CHOOSE value \in
        {IF str = <<>> THEN 0
         ELSE DigitsValue(SubSeq(str, 1, Len(str) - 1)) * 10
                + DigitValue(str[Len(str)]) :
            str \in {string}} : TRUE

\* The longest prefix of str made of digits.
DigitPrefix(string) ==
    CHOOSE prefix \in
        {SubSeq(str, 1, n) :
            str \in {string},
            n \in {k \in 0..Len(string) :
                     /\ \A i \in 1..k : IsDigit(string[i])
                     /\ (k < Len(string) => ~IsDigit(string[k + 1]))}} : TRUE

\* The string without its leading white space.
TrimStart(string) ==
    CHOOSE trimmed \in
        {SubSeq(string, n + 1, Len(string)) :
            n \in {k \in 0..Len(string) :
                     /\ \A i \in 1..k : string[i] = " "
                     /\ (k < Len(string) => string[k + 1] # " ")}} : TRUE

\* parseInt(str, 10): leading white space is skipped, then an optional sign,
\* then the leading digits; NaN when there is none.  (undefined, as a missing
\* array element, gives NaN.)
parseInt(string) ==
    CHOOSE value \in
        {IF run = <<>> THEN NaN
         ELSE Num(IF Len(str) > 0 /\ str[1] = "-"
                  THEN 0 - DigitsValue(run) ELSE DigitsValue(run)) :
            str \in {TrimStart(string)},
            run \in {DigitPrefix(IF Len(TrimStart(string)) > 0
                                    /\ TrimStart(string)[1] \in {"-", "+"}
                                 THEN SubSeq(TrimStart(string), 2,
                                             Len(TrimStart(string)))
                                 ELSE TrimStart(string))}} : TRUE

----------------------------------------------------------------------------
(* FuzzyDate: toString *)

Separators == <<"", "-", "-", "T", ":", ":", ".">>
Widths == <<4, 2, 2, 2, 2, 2, 3>>

StringOk(str) == [thrown |-> "none", str |-> str]
StringThrows == [thrown |-> "TypeError", str |-> <<>>]

\* value.toString() on a field that is not undefined.
ValueToString(value) ==
    IF value = NaN THEN <<"N", "a", "N">> ELSE NumberToString(value.val)

\* The nested if (this.<field> !== undefined) blocks from field i on:
\* null passes the test and null.toString() throws a TypeError.
RECURSIVE toStringFrom(_, _)
toStringFrom(this, i) ==
    IF i > 7 THEN StringOk(<<>>)
    ELSE IF this[Fields[i]] = Undefined THEN StringOk(<<>>)
    ELSE IF this[Fields[i]] = Null THEN StringThrows
    ELSE CHOOSE result \in
            {IF rest.thrown # "none" THEN rest
             ELSE StringOk(<<Separators[i]>>
                             \o padStart(ValueToString(this[Fields[i]]), Widths[i])
                             \o rest.str) :
                rest \in {toStringFrom(this, i + 1)}} : TRUE

\* this.year.toString().padStart(4, '0'), then the nested blocks.
toString(this) ==
    IF this.year = Undefined \/ this.year = Null THEN StringThrows
    ELSE CHOOSE result \in
            {IF rest.thrown # "none" THEN rest
             ELSE StringOk(padStart(ValueToString(this.year), Widths[1])
                             \o rest.str) :
                rest \in {toStringFrom(this, 2)}} : TRUE

----------------------------------------------------------------------------
(* FuzzyDate: fromString *)

GroupSeparators == <<"-", "-", "T", ":", ":", ".">>
GroupWidths == <<2, 2, 2, 2, 2, 3>>

\* The nested optional groups (-\d{2}(-\d{2}(T\d{2}(:\d{2}(:\d{2}(\.\d{3})?)?)?)?)?)?$
\* from group k on.
RECURSIVE MatchesGroups(_, _)
MatchesGroups(string, group) ==
    \E str \in {string}, k \in {group} :
        \/ str = <<>>
        \/ /\ k <= 6
           /\ Len(str) >= 1 + GroupWidths[k]
           /\ str[1] = GroupSeparators[k]
           /\ \A i \in 2..(1 + GroupWidths[k]) : IsDigit(str[i])
           /\ MatchesGroups(SubSeq(str, 2 + GroupWidths[k], Len(str)), k + 1)

\* A variant without the format check.
MatchesFormat_Unchecked(str) == TRUE

\* A variant of the format check that tests the start of the string only.
MatchesFormat_YearOnly(str) ==
    DigitPrefix(IF Len(str) > 0 /\ str[1] = "-"
                THEN SubSeq(str, 2, Len(str)) ELSE str) # <<>>

\* /^-?\d+(...)?$/.test(dateString)
MatchesFormat(str) ==
    \E body \in {IF Len(str) > 0 /\ str[1] = "-"
                 THEN SubSeq(str, 2, Len(str)) ELSE str} :
        \E year \in {DigitPrefix(body)} :
            /\ year # <<>>
            /\ MatchesGroups(SubSeq(body, Len(year) + 1, Len(body)), 1)

\* array[i] of a JavaScript array (0-based); a missing element is undefined,
\* which parseInt turns into NaN and a truth test into false: modelled as "".
At(array, i) == IF i + 1 <= Len(array) THEN array[i + 1] ELSE <<>>

\* array.slice(start)
slice(array, start) == SubSeq(array, start + 1, Len(array))

DeserializationError(site, o) ==
    [thrown |-> "FuzzyDateDeserializationError", site |-> site, options |-> o]

\* A variant that drops the sign of the year.
DateParts_NoSign(datePart) ==
    IF Len(datePart) > 0 /\ datePart[1] = "-"
    THEN slice(split(datePart, "-"), 1)
    ELSE split(datePart, "-")

\* The date components: with a leading '-', the sign is put back on the
\* second element of the split and the first (empty) one is dropped.
DateParts(datePart) ==
    CHOOSE dateParts \in
        {IF Len(datePart) > 0 /\ datePart[1] = "-"
         THEN <<(<<"-">> \o At(parts, 1))>> \o slice(parts, 2)
         ELSE parts :
            parts \in {split(datePart, "-")}} : TRUE

\* The time part of fromString (if (timePart) { ... }).
ParseTime(timePart, o) ==
    CHOOSE result \in
        {IF Len(timeParts) < 1 \/ Len(timeParts) > 3
         THEN DeserializationError("timeParts", o)
         ELSE IF hour = NaN
         THEN DeserializationError("hour", [o EXCEPT !.hour = hour])
         ELSE IF Len(timeParts) > 1 /\ minute = NaN
         THEN DeserializationError("minute",
                  [o EXCEPT !.hour = hour, !.minute = minute])
         ELSE IF Len(timeParts) > 2 /\ second = NaN
         THEN DeserializationError("second",
                  [o EXCEPT !.hour = hour, !.minute = minute,
                            !.second = second])
         ELSE IF Len(timeParts) > 2 /\ At(secondParts, 1) # <<>>
                 /\ millisecond = NaN
         THEN DeserializationError("millisecond",
                  [o EXCEPT !.hour = hour, !.minute = minute,
                            !.second = second, !.millisecond = millisecond])
         ELSE [thrown |-> "none", site |-> "",
               options |->
                 [o EXCEPT !.hour = hour,
                           !.minute = IF Len(timeParts) > 1 THEN minute ELSE @,
                           !.second = IF Len(timeParts) > 2 THEN second ELSE @,
                           !.millisecond =
                               IF Len(timeParts) > 2 /\ At(secondParts, 1) # <<>>
                               THEN millisecond ELSE @]] :
            timeParts \in {split(timePart, ":")},
            hour \in {parseInt(At(split(timePart, ":"), 0))},
            minute \in {parseInt(At(split(timePart, ":"), 1))},
            secondParts \in {split(At(split(timePart, ":"), 2), ".")},
            second \in {parseInt(At(split(At(split(timePart, ":"), 2), "."), 0))},
            millisecond \in
                {parseInt(At(split(At(split(timePart, ":"), 2), "."), 1))}} : TRUE

\* The date part of fromString, then the time part if there is one.
ParseDate(datePart, timePart) ==
    CHOOSE result \in
        {IF Len(dateParts) < 1 \/ Len(dateParts) > 3
         THEN DeserializationError("dateParts", NoOptions)
         ELSE IF year = NaN
         THEN DeserializationError("year", [NoOptions EXCEPT !.year = year])
         ELSE IF Len(dateParts) > 1 /\ month = NaN
         THEN DeserializationError("month",
                  [NoOptions EXCEPT !.year = year, !.month = month])
         ELSE IF Len(dateParts) > 2 /\ day = NaN
         THEN DeserializationError("day",
                  [NoOptions EXCEPT !.year = year, !.month = month,
                                    !.day = day])
         ELSE IF timePart # <<>>
         THEN ParseTime(timePart,
                  [NoOptions EXCEPT
                      !.year = year,
                      !.month = IF Len(dateParts) > 1 THEN month ELSE @,
                      !.day = IF Len(dateParts) > 2 THEN day ELSE @])
         ELSE [thrown |-> "none", site |-> "",
               options |->
                 [NoOptions EXCEPT
                     !.year = year,
                     !.month = IF Len(dateParts) > 1 THEN month ELSE @,
                     !.day = IF Len(dateParts) > 2 THEN day ELSE @]] :
            dateParts \in {DateParts(datePart)},
            year \in {parseInt(At(DateParts(datePart), 0))},
            month \in {parseInt(At(DateParts(datePart), 1))},
            day \in {parseInt(At(DateParts(datePart), 2))}} : TRUE

\* fromString up to the constructor call: the error thrown with the place
\* that threw it, and the options record assembled.
ParseString(str) ==
    IF ~MatchesFormat(str) THEN DeserializationError("format", NoOptions)
    ELSE CHOOSE result \in
            {ParseDate(At(parts, 0), At(parts, 1)) :
                parts \in {split(str, "T")}} : TRUE

\* FuzzyDate.fromString(dateString): the error thrown (its own or the
\* constructor's) and the options record handed to the constructor.
fromString(str) ==
    CHOOSE result \in
        {IF parsed.thrown # "none" THEN parsed
         ELSE [thrown |-> Constructor(parsed.options), site |-> "constructor",
               options |-> parsed.options] :
            parsed \in {ParseString(str)}} : TRUE

----------------------------------------------------------------------------
(* FuzzyDuration *)

DurationFields ==
    <<"years", "months", "days", "hours", "minutes", "seconds", "milliseconds">>

DurationOpts(y, mo, d, h, mi, s, ms) ==
    [years |-> y, months |-> mo, days |-> d, hours |-> h, minutes |-> mi,
     seconds |-> s, milliseconds |-> ms]

NoDurationOptions ==
    DurationOpts(Undefined, Undefined, Undefined, Undefined, Undefined,
                 Undefined, Undefined)

\* No FuzzyDuration instance yet.
NoDuration ==
    [years |-> Undefined, months |-> Undefined, days |-> Undefined,
     hours |-> Undefined, minutes |-> Undefined, seconds |-> Undefined,
     milliseconds |-> Undefined, precision |-> ""]

\* A variant that stores an omitted unit as it is.
DurationValue_AsGiven(value) == value

\* The value stored for a unit: the input, or 0 when it is missing.
DurationValue(value) == IF isEmpty(value) THEN Num(0) ELSE value

\* A variant that takes a unit passed as 0 for a missing one.
DurationPrecision_Truthy(o) ==
    LET given == {i \in 1..7 : IsNum(o[DurationFields[i]])
                                 /\ o[DurationFields[i]].val # 0}
    IN IF given = {} THEN "years"
       ELSE DurationFields[CHOOSE i \in given : \A j \in given : j <= i]

\* The precision: the finest unit whose input value is not empty, checked
\* from milliseconds up to years; years when there is none.
DurationPrecision(o) ==
    IF ~isEmpty(o.milliseconds) THEN "milliseconds"
    ELSE IF ~isEmpty(o.seconds) THEN "seconds"
    ELSE IF ~isEmpty(o.minutes) THEN "minutes"
    ELSE IF ~isEmpty(o.hours) THEN "hours"
    ELSE IF ~isEmpty(o.days) THEN "days"
    ELSE IF ~isEmpty(o.months) THEN "months"
    ELSE "years"

\* new FuzzyDuration(options): the instance.
FuzzyDuration(o) ==
    [years |-> DurationValue(o.years),
     months |-> DurationValue(o.months),
     days |-> DurationValue(o.days),
     hours |-> DurationValue(o.hours),
     minutes |-> DurationValue(o.minutes),
     seconds |-> DurationValue(o.seconds),
     milliseconds |-> DurationValue(o.milliseconds),
     precision |-> DurationPrecision(o)]

----------------------------------------------------------------------------
(* The inputs *)

Empties == {Undefined, Null, NaN}

Nums(S) == {Num(n) : n \in S}

Years == {-100000, -500, -10, -5, -4, 0, 5, 1900, 2000, 2023, 2024, 10000, 99999}
Months == 0..MaxMonth
Days == {0, 1} \cup (28..MaxDay)
Hours == {0, 1} \cup (23..MaxHour)
Minutes == {0} \cup (59..MaxMinute)
Seconds == {0} \cup (59..MaxSecond)
Milliseconds == {0} \cup (999..MaxMillisecond)

\* The dates the records with time fields are built on.
TimeYears == {-500, 2024}
TimeMonths == {2, 12}
TimeDays == {29, 31}

\* o is a record of date fields only, absent fields holding the empty value e.
IsDateOptions(o, e) ==
    \E y \in Nums(Years) \cup {e}, mo \in Nums(Months) \cup {e},
       d \in Nums(Days) \cup {e} :
        o = Opts(y, mo, d, e, e, e, e)

\* o is a record with time fields, absent fields holding the empty value e.
IsTimeOptions(o, e) ==
    \E y \in Nums(TimeYears) \cup {e}, mo \in Nums(TimeMonths) \cup {e},
       d \in Nums(TimeDays) \cup {e}, h \in Nums(Hours) \cup {e},
       mi \in Nums(Minutes) \cup {e}, s \in Nums(Seconds) \cup {e},
       ms \in Nums(Milliseconds) \cup {e} :
        o = Opts(y, mo, d, h, mi, s, ms)

InOptionsDomain(o) ==
    \E e \in Empties : IsDateOptions(o, e) \/ IsTimeOptions(o, e)

SampleStrings ==
    { <<"2", "0", "2", "3">>,
      <<"2", "0", "2", "3", "-", "0", "5">>,
      <<"-", "2", "0", "2", "3", "-", "0", "5", "-", "1", "5">>,
      <<"2", "0", "2", "3", "-", "0", "2", "-", "3", "0">>,
      <<"2", "0", "2", "3", "-", "0", "5", "-", "1", "5", "T", "1", "0",
        ":", "3", "0", ":", "4", "5", ".", "5", "0", "0">>,
      <<"2", "0", "2", "3", "-", "5">>,
      <<"i", "n", "v", "a", "l", "i", "d">>,
      <<"2", "0", "2", "3", "T", "1", "0">>,
      <<"2", "0", "2", "3", "-", "0", "5", "T", "1", "0">>,
      <<"2", "0", "2", "3", "-", "0", "5", "-", "1", "5", "T">>,
      <<"2", "0", "2", "3", "-", "0", "5", "-", "1", "5", "T", "1", "0",
        ":", "3", "0", ":", "4", "5", ".", "5", "0", "0", "Z">>,
      <<"2", "0", "a", "3">>,
      <<"-">>,
      <<"-", "-", "2", "0", "2", "3">>,
      <<"2", "0", "2", "3", "-", "0", "5", "-", "1", "5", "T", "1", ":",
        "3", "0">>,
      <<"2", "0", "2", "3", "-", "1", "3">>,
      <<"2", "0", "2", "3", "-", "0", "0">>,
      <<"2", "0", "2", "3", "-", "0", "4", "-", "3", "1">>,
      <<"2", "0", "2", "3", "-", "0", "2", "-", "2", "9">>,
      <<"2", "0", "2", "4", "-", "0", "2", "-", "2", "9">>,
      <<"2", "0", "2", "3", "-", "0", "5", "-", "1", "5", "T", "2", "4">>,
      <<"2", "0", "2", "3", "-", "0", "5", "-", "1", "5", "T", "2", "4",
        ":", "0", "0", ":", "0", "0", ".", "0", "0", "0">>,
      <<"2", "0", "2", "3", "-", "0", "5", "-", "1", "5", "T", "2", "4",
        ":", "0", "0", ":", "0", "0", ".", "0", "0", "1">>,
      <<"2", "0", "2", "3", "-", "0", "5", "-", "1", "5", "T", "2", "5">>,
      <<"2", "0", "2", "3", "-", "0", "5", "-", "1", "5", "T", "1", "0",
        ":", "6", "0">>,
      <<"2", "0", "2", "3", "-", "0", "5", "-", "1", "5", "T", "1", "0",
        ":", "3", "0", ":", "6", "0">>,
      <<"2", "0", "2", "3", "-", "0", "5", "-", "1", "5", "T", "0", "0">>,
      <<"2", "0", "2", "3", "-", "0", "5", "-", "1", "5", "T", "1", "0",
        ":", "3", "0", ":", "4", "5", ".", "0", "0", "0">>,
      <<"0", "0", "0", "0">>,
      <<"-", "0", "0", "0", "5">>,
      <<"5">>,
      <<"1", "2", "3", "4", "5", "-", "0", "6">>,
      <<"-", "5", "0", "0", "-", "0", "1", "-", "0", "1">>,
      <<"-", "1", "0", "0", "0", "0", "0", "-", "0", "1", "-", "0", "1",
        "T", "0", "0", ":", "0", "0", ":", "0", "0", ".", "0", "0", "0">>,
      <<"9", "9", "9", "9", "9", "-", "1", "2", "-", "3", "1", "T", "2",
        "3", ":", "5", "9", ":", "5", "9", ".", "9", "9", "9">> }

\* The strings the mutations are made of.
BaseStrings ==
    { <<"2", "0", "2", "3", "-", "0", "5", "-", "1", "5", "T", "1", "0",
        ":", "3", "0", ":", "4", "5", ".", "5", "0", "0">>,
      <<"-", "0", "0", "4", "4", "-", "0", "3", "-", "1", "5">> }

MutationCharacters == {"0", "9", "-", "T", ":", ".", "x", " "}

\* The non-empty prefixes of a string, also with one more character.
Prefixes(string) ==
    {SubSeq(string, 1, n) : n \in 1..Len(string)}
        \cup {SubSeq(string, 1, n) \o <<c>> :
                n \in 1..Len(string), c \in MutationCharacters}

\* A string with one character replaced or removed.
Replacements(string) ==
    {[string EXCEPT ![i] = c] : i \in 1..Len(string), c \in MutationCharacters}

Deletions(string) ==
    {SubSeq(string, 1, i - 1) \o SubSeq(string, i + 1, Len(string)) :
        i \in 1..Len(string)}

\* The strings handed to fromString by the caller.
StringDomain ==
    SampleStrings
        \cup UNION {Prefixes(b) \cup Replacements(b) \cup Deletions(b) :
                      b \in BaseStrings}

----------------------------------------------------------------------------
(* The state machine *)

Init ==
    /\ \/ InOptionsDomain(options) /\ dateString = <<>>
       \/ options = NoOptions /\ dateString \in StringDomain
    /\ self = NoOptions
    /\ exists = FALSE
    /\ op = "init"
    /\ thrown = "none"
    /\ prev = NoOptions
    /\ prevExists = FALSE
    /\ retPrecision = ""
    /\ retOptions = NoOptions
    /\ retString = <<>>
    /\ durationOptions = NoDurationOptions
    /\ duration = NoDuration

NoReturn ==
    /\ retPrecision' = ""
    /\ retOptions' = NoOptions
    /\ retString' = <<>>

\* A faulty constructor that stores the padded values.
New_StoresPadded ==
    /\ op = "init"
    /\ dateString = <<>>
    /\ op' = "constructor"
    /\ thrown' = Constructor(options)
    /\ exists' = (Constructor(options) = "none")
    /\ self' = IF Constructor(options) = "none"
               THEN CalendarObject(options) ELSE NoOptions
    /\ NoReturn
    /\ UNCHANGED <<options, dateString, prev, prevExists,
                 durationOptions, duration>>

\* new FuzzyDate(options)
New ==
    /\ op = "init"
    /\ dateString = <<>>
    /\ op' = "constructor"
    /\ thrown' = Constructor(options)
    /\ exists' = (Constructor(options) = "none")
    /\ self' = IF Constructor(options) = "none" THEN options ELSE NoOptions
    /\ NoReturn
    /\ UNCHANGED <<options, dateString, prev, prevExists,
                 durationOptions, duration>>

\* FuzzyDate.fromString(str)
FromStringStep(str) ==
    \E r \in {fromString(str)} :
       /\ op' = "fromString"
       /\ dateString' = str
       /\ thrown' = r.thrown
       /\ options' = IF r.site = "constructor" THEN r.options ELSE options
       /\ exists' = (r.thrown = "none")
       /\ self' = IF r.thrown = "none" THEN r.options ELSE NoOptions
       /\ prev' = self
       /\ prevExists' = exists
       /\ NoReturn
       /\ UNCHANGED <<durationOptions, duration>>

\* fromString on a string supplied by the caller
FromString ==
    /\ op = "init"
    /\ dateString # <<>>
    /\ FromStringStep(dateString)

\* fromString on the string toString has just returned
FromToString ==
    /\ op = "toString"
    /\ thrown = "none"
    /\ FromStringStep(retString)

GetPrecision ==
    /\ exists
    /\ op' = "getPrecision"
    /\ thrown' = "none"
    /\ retPrecision' = getPrecision(self)
    /\ retOptions' = NoOptions
    /\ retString' = <<>>
    /\ UNCHANGED <<options, self, exists, dateString, prev, prevExists,
                 durationOptions, duration>>

\* A variant that writes the padded values into the instance.
GetEarliestPaddingOptions_InPlace ==
    /\ exists
    /\ op' = "getEarliestPaddingOptions"
    /\ thrown' = "none"
    /\ retOptions' = getEarliestPaddingOptions(self)
    /\ self' = getEarliestPaddingOptions(self)
    /\ retPrecision' = ""
    /\ retString' = <<>>
    /\ UNCHANGED <<options, exists, dateString, prev, prevExists,
                 durationOptions, duration>>

GetEarliestPaddingOptions ==
    /\ exists
    /\ op' = "getEarliestPaddingOptions"
    /\ thrown' = "none"
    /\ retOptions' = getEarliestPaddingOptions(self)
    /\ retPrecision' = ""
    /\ retString' = <<>>
    /\ UNCHANGED <<options, self, exists, dateString, prev, prevExists,
                 durationOptions, duration>>

GetLatestPaddingOptions ==
    /\ exists
    /\ op' = "getLatestPaddingOptions"
    /\ \E r \in {getLatestPaddingOptions(self)} :
          /\ thrown' = r.thrown
          /\ retOptions' = r.value
    /\ retPrecision' = ""
    /\ retString' = <<>>
    /\ UNCHANGED <<options, self, exists, dateString, prev, prevExists,
                 durationOptions, duration>>

ToString ==
    /\ exists
    /\ op' = "toString"
    /\ \E r \in {toString(self)} :
          /\ thrown' = r.thrown
          /\ retString' = r.str
    /\ retPrecision' = ""
    /\ retOptions' = NoOptions
    /\ UNCHANGED <<options, self, exists, dateString, prev, prevExists,
                 durationOptions, duration>>

Next ==
    \/ New
    \/ FromString
    \/ FromToString
    \/ GetPrecision
    \/ GetEarliestPaddingOptions
    \/ GetLatestPaddingOptions
    \/ ToString

Spec == Init /\ [][Next]_vars

----------------------------------------------------------------------------
(* The state machine of FuzzyDuration *)

\* The values of a unit of the options record: a missing unit holds e.
DurationValues(e) == {e, Num(0), Num(-2), Num(5)}

InDurationDomain(o) ==
    \E e \in Empties :
        \E y \in DurationValues(e), mo \in DurationValues(e),
           d \in DurationValues(e), h \in DurationValues(e),
           mi \in DurationValues(e), s \in DurationValues(e),
           ms \in DurationValues(e) :
            o = DurationOpts(y, mo, d, h, mi, s, ms)

InitDuration ==
    /\ options = NoOptions
    /\ dateString = <<>>
    /\ self = NoOptions
    /\ exists = FALSE
    /\ op = "init"
    /\ thrown = "none"
    /\ prev = NoOptions
    /\ prevExists = FALSE
    /\ retPrecision = ""
    /\ retOptions = NoOptions
    /\ retString = <<>>
    /\ InDurationDomain(durationOptions)
    /\ duration = NoDuration

\* new FuzzyDuration(durationOptions)
NewFuzzyDuration ==
    /\ op = "init"
    /\ op' = "FuzzyDuration"
    /\ thrown' = "none"
    /\ duration' = FuzzyDuration(durationOptions)
    /\ UNCHANGED <<options, self, exists, dateString, prev, prevExists,
                   retPrecision, retOptions, retString, durationOptions>>

NextDuration == NewFuzzyDuration

SpecDuration == InitDuration /\ [][NextDuration]_vars

----------------------------------------------------------------------------
(* The vocabulary of the specification, stated independently of the code. *)

\* A field is defined when it holds a number.
IsDefined(value) == value.tag = "number"

\* The defined fields form a prefix of year .. millisecond.
DefinedPrefix(o) ==
    \A i \in 1..6 : ~IsDefined(o[Fields[i]]) => ~IsDefined(o[Fields[i + 1]])

\* The tuple with month 1, day 1 and time 0 in place of undefined fields.
MinimallyPadded(o) ==
    Opts(o.year,
         IF o.month = Undefined THEN Num(1) ELSE o.month,
         IF o.day = Undefined THEN Num(1) ELSE o.day,
         IF o.hour = Undefined THEN Num(0) ELSE o.hour,
         IF o.minute = Undefined THEN Num(0) ELSE o.minute,
         IF o.second = Undefined THEN Num(0) ELSE o.second,
         IF o.millisecond = Undefined THEN Num(0) ELSE o.millisecond)

\* The length of a month under the Gregorian rule.
GregorianMonthLength(y, m) ==
    CASE m \in {1, 3, 5, 7, 8, 10, 12} -> 31
      [] m \in {4, 6, 9, 11} -> 30
      [] OTHER -> IF (y % 4 = 0 /\ y % 100 # 0) \/ y % 400 = 0 THEN 29 ELSE 28

AllNumbers(o) == \A i \in 1..7 : IsDefined(o[Fields[i]])

\* The fields of a tuple of numbers are in the ranges of a date and time.
InCalendarRanges(t) ==
    /\ t.month.val \in 1..12
    /\ t.day.val \in 1..GregorianMonthLength(t.year.val, t.month.val)
    /\ t.hour.val \in 0..23
    /\ t.minute.val \in 0..59
    /\ t.second.val \in 0..59
    /\ t.millisecond.val \in 0..999

\* A tuple is a valid proleptic-Gregorian date and time.
IsCalendarTuple(t) == AllNumbers(t) /\ InCalendarRanges(t)

\* Both invariants of a FuzzyDate.
IsValidFuzzyDate(o) == DefinedPrefix(o) /\ IsCalendarTuple(MinimallyPadded(o))

\* The index in Fields of the last defined field (0 when there is none).
LastDefinedIndex(o) ==
    IF \A i \in 1..7 : ~IsDefined(o[Fields[i]]) THEN 0
    ELSE CHOOSE i \in 1..7 :
            /\ IsDefined(o[Fields[i]])
            /\ \A j \in (i + 1)..7 : ~IsDefined(o[Fields[j]])

\* A tuple of numbers as a sequence <<year, ..., millisecond>>.
Tuple(o) == [i \in 1..7 |-> o[Fields[i]].val]

FieldMin(i) == IF i \in {2, 3} THEN 1 ELSE 0

FieldMax(t, i) ==
    CASE i = 2 -> 12
      [] i = 3 -> GregorianMonthLength(t[1], t[2])
      [] i = 4 -> 23
      [] i \in {5, 6} -> 59
      [] OTHER -> 999

\* The tuple t advanced by one unit of field i, carrying into coarser fields.
RECURSIVE Advance(_, _)
Advance(tuple, field) ==
    CHOOSE next \in
        {IF i = 1 THEN [t EXCEPT ![1] = t[1] + 1]
         ELSE IF t[i] < FieldMax(t, i) THEN [t EXCEPT ![i] = t[i] + 1]
         ELSE Advance([t EXCEPT ![i] = FieldMin(i)], i - 1) :
            t \in {tuple}, i \in {field}} : TRUE

----------------------------------------------------------------------------
(* Claims *)

\* C1: constructing from an options record whose defined fields are not a
\* prefix of year .. millisecond fails with FuzzyDateHierarchyError and
\* yields no instance.
C1_HierarchyError ==
    (op = "constructor" /\ ~DefinedPrefix(options))
        => (thrown = "FuzzyDateHierarchyError" /\ ~exists)

C1_Witness ==
    /\ op = "constructor"
    /\ options.year = Num(2023)
    /\ options.month = Undefined
    /\ options.day = Num(28)
    /\ thrown = "FuzzyDateHierarchyError"

\* The records C2 is about: numbers and undefined only, the numbers a prefix
\* starting with the year, and a padded field out of its range.
C2_OutOfRange(o) ==
    /\ \A i \in 1..7 : IsDefined(o[Fields[i]]) \/ o[Fields[i]] = Undefined
    /\ IsDefined(o.year)
    /\ DefinedPrefix(o)
    /\ ~InCalendarRanges(MinimallyPadded(o))

\* C2: constructing from an options record whose defined fields form a prefix
\* but whose minimally padded tuple is out of range (month outside 1..12, day
\* outside the month's length, hour outside 0..23, minute or second outside
\* 0..59, millisecond outside 0..999) fails with FuzzyDateCalendarError.
C2_CalendarError ==
    (op = "constructor" /\ C2_OutOfRange(options))
        => thrown = "FuzzyDateCalendarError"

\* C3: constructing from an options record whose defined fields form a prefix
\* and whose minimally padded tuple is calendar-valid succeeds, and every
\* stored field equals the input.
C3_StoredExactly ==
    (op = "constructor" /\ IsValidFuzzyDate(options))
        => (thrown = "none" /\ exists /\ self = options)

C3_Witness ==
    /\ op = "constructor"
    /\ options = Opts(Num(2024), Num(2), Num(29), Undefined, Undefined,
                      Undefined, Undefined)
    /\ exists
    /\ self = options

\* C4: every instance that exists, from the constructor or from fromString,
\* has its defined fields forming a prefix and a calendar-valid minimally
\* padded tuple.
C4_InstanceValid == exists => IsValidFuzzyDate(self)

\* C5: round trip: for an instance x, fromString(x.toString()) succeeds and
\* yields the same fields, hence the same defined pattern, and the same
\* precision.
C5_RoundTrip ==
    (op = "fromString" /\ prevExists)
        => /\ thrown = "none"
           /\ exists
           /\ self = prev
           /\ getPrecision(self) = getPrecision(prev)

\* C6: for a valid FuzzyDate toString returns a string that the format check
\* of fromString accepts; for a negative year the string starts with '-',
\* followed by digits only up to the first separator or the end.
C6_ToStringInGrammar ==
    (op = "toString" /\ IsValidFuzzyDate(self))
        => /\ thrown = "none"
           /\ MatchesFormat(retString)
           /\ self.year.val < 0 =>
                /\ retString[1] = "-"
                /\ \A i \in 2..Len(retString) :
                      (\A j \in 2..i : retString[j] # "-") => IsDigit(retString[i])

\* The name getPrecision is to return: that of the last defined field, and
\* year when no finer field is defined.
C7_Expected(o) ==
    IF LastDefinedIndex(o) <= 1 THEN "year" ELSE Fields[LastDefinedIndex(o)]

\* C7: getPrecision returns the name of the last defined field, with 0
\* counting as defined, and year when no finer field is defined.
C7_Precision ==
    op = "getPrecision" => (thrown = "none" /\ retPrecision = C7_Expected(self))

C7_Witness ==
    /\ op = "getPrecision"
    /\ self.hour = Num(0)
    /\ self.minute = Undefined
    /\ retPrecision = "hour"

\* C8: getEarliestPaddingOptions never fails and returns a tuple of seven
\* defined fields: the instance's defined fields unchanged, the others month
\* 1, day 1, hour 0, minute 0, second 0, millisecond 0.
C8_EarliestPadding ==
    op = "getEarliestPaddingOptions"
        => /\ thrown = "none"
           /\ AllNumbers(retOptions)
           /\ \A i \in 1..7 :
                 IF IsDefined(self[Fields[i]])
                 THEN retOptions[Fields[i]] = self[Fields[i]]
                 ELSE i > 1 /\ retOptions[Fields[i]] = Num(FieldMin(i))

\* C9: for a valid FuzzyDate with an undefined field, the tuple of
\* getLatestPaddingOptions is one millisecond before the first instant of the
\* next unit of the last defined field: advancing it by one millisecond gives
\* the earliest tuple advanced by one unit of that field.
C9_LatestPadding ==
    (op = "getLatestPaddingOptions" /\ IsValidFuzzyDate(self)
       /\ ~AllNumbers(self))
        => /\ thrown = "none"
           /\ AllNumbers(retOptions)
           /\ Advance(Tuple(retOptions), 7)
                = Advance(Tuple(MinimallyPadded(self)), LastDefinedIndex(self))

C9_Witness ==
    /\ op = "getLatestPaddingOptions"
    /\ self = Opts(Num(2024), Num(12), Num(31), Num(23), Undefined, Undefined,
                   Undefined)
    /\ retOptions = Opts(Num(2024), Num(12), Num(31), Num(23), Num(59),
                         Num(59), Num(999))

\* C10: at month precision getLatestPaddingOptions gives the last day of that
\* month under the Gregorian rule at 23:59:59.999; at year precision it gives
\* December 31 23:59:59.999 of the same year.
C10_MonthAndYearEnd ==
    (op = "getLatestPaddingOptions" /\ IsDefined(self.year)
       /\ ~IsDefined(self.day))
        => /\ thrown = "none"
           /\ retOptions =
                IF IsDefined(self.month)
                THEN Opts(self.year, self.month,
                          Num(GregorianMonthLength(self.year.val, self.month.val)),
                          Num(23), Num(59), Num(59), Num(999))
                ELSE Opts(self.year, Num(12), Num(31), Num(23), Num(59),
                          Num(59), Num(999))

C10_Witness ==
    /\ op = "getLatestPaddingOptions"
    /\ self.year = Num(1900)
    /\ self.month = Num(2)
    /\ self.day = Undefined
    /\ retOptions.day = Num(28)

\* C11: for a FuzzyDate with all seven fields defined, both
\* getEarliestPaddingOptions and getLatestPaddingOptions return exactly the
\* seven field values of the instance.
C11_FullPrecisionUnchanged ==
    (op \in {"getEarliestPaddingOptions", "getLatestPaddingOptions"}
       /\ AllNumbers(self))
        => (thrown = "none" /\ retOptions = self)

\* The decimal digits of a natural number, zero-padded on the left to at
\* least width digits.
RECURSIVE C12_Digits(_, _)
C12_Digits(n, width) ==
    IF n < 10 /\ width <= 1 THEN <<Digits[n + 1]>>
    ELSE C12_Digits(n \div 10, width - 1) \o <<Digits[(n % 10) + 1]>>

\* The components for the fields i .. last, each with its separator.
RECURSIVE C12_Components(_, _, _)
C12_Components(o, i, last) ==
    IF i > last THEN <<>>
    ELSE <<Separators[i]>> \o C12_Digits(o[Fields[i]].val, Widths[i])
            \o C12_Components(o, i + 1, last)

\* The string of the defined-field prefix: the year with its sign first and
\* at least four digits, then the further defined fields.
C12_Expected(o) ==
    (IF o.year.val < 0 THEN <<"-">> ELSE <<>>)
        \o C12_Digits(IF o.year.val < 0 THEN 0 - o.year.val ELSE o.year.val, 4)
        \o C12_Components(o, 2, LastDefinedIndex(o))

\* C12: toString returns the year zero-padded to at least four digits and
\* never truncated, followed, for each further defined field, by its separator
\* and its value zero-padded to two digits (three for millisecond), and
\* nothing for the undefined fields.
C12_ToStringPrefix ==
    op = "toString" => (thrown = "none" /\ retString = C12_Expected(self))

\* The grammar of fuzzy-date strings: an optional '-', one or more year
\* digits, then the first k of the groups -MM, -DD, THH, :MM, :SS, .mmm.
C13_GroupSeparators == <<"-", "-", "T", ":", ":", ".">>
C13_GroupStart == <<0, 3, 6, 9, 12, 15, 19>>

\* s is made of sign '-' signs (0 or 1), n year digits and the first k groups.
C13_HasShape(s, sign, n, k) ==
    /\ Len(s) = sign + n + C13_GroupStart[k + 1]
    /\ sign = 1 => s[1] = "-"
    /\ \A i \in (sign + 1)..(sign + n) : IsDigit(s[i])
    /\ \A g \in 1..k :
          /\ s[sign + n + C13_GroupStart[g] + 1] = C13_GroupSeparators[g]
          /\ \A i \in (sign + n + C13_GroupStart[g] + 2)
                         ..(sign + n + C13_GroupStart[g + 1]) : IsDigit(s[i])

C13_InGrammar(s) ==
    \E sign \in 0..1, n \in 1..Len(s), k \in 0..6 : C13_HasShape(s, sign, n, k)

\* C13: fromString fails with FuzzyDateDeserializationError (whose message is
\* always "Invalid format") for every string that is not in the grammar as a
\* whole, and for no string that is.
C13_InvalidFormat ==
    op = "fromString"
        => (thrown = "FuzzyDateDeserializationError"
              <=> ~C13_InGrammar(dateString))

C13_Witness ==
    /\ op = "fromString"
    /\ dateString = <<"2", "0", "2", "3", "T", "1", "0">>
    /\ thrown = "FuzzyDateDeserializationError"

\* The base-10 value of the digits s[from] .. s[to].
RECURSIVE C15_Decimal(_, _, _)
C15_Decimal(s, from, to) ==
    IF to < from THEN 0
    ELSE C15_Decimal(s, from, to - 1) * 10 + DigitValue(s[to])

\* The fields a string of the grammar denotes: the year with its sign, the
\* components present, and undefined for the components absent.
C15_Fields(s) ==
    LET shape == CHOOSE sh \in (0..1) \X (1..Len(s)) \X (0..6) :
                    C13_HasShape(s, sh[1], sh[2], sh[3])
        sign == shape[1]
        n == shape[2]
        k == shape[3]
        year == C15_Decimal(s, sign + 1, sign + n)
        group(g) == IF g > k THEN Undefined
                    ELSE Num(C15_Decimal(s, sign + n + C13_GroupStart[g] + 2,
                                         sign + n + C13_GroupStart[g + 1]))
    IN Opts(Num(IF sign = 1 THEN 0 - year ELSE year),
            group(1), group(2), group(3), group(4), group(5), group(6))

\* A string of the grammar denotes a date and time of the calendar.
C15_DenotesValid(s) ==
    C13_InGrammar(s) /\ IsCalendarTuple(MinimallyPadded(C15_Fields(s)))

\* C14: for a string of the grammar that denotes an impossible date or time,
\* fromString fails with FuzzyDateCalendarError.
C14_CalendarErrorFromString ==
    (op = "fromString" /\ C13_InGrammar(dateString)
       /\ ~C15_DenotesValid(dateString))
        => thrown = "FuzzyDateCalendarError"

\* C15: for a string of the grammar that denotes a valid date and time,
\* fromString returns a FuzzyDate whose fields are the base-10 values of the
\* components present, the year with its sign, and undefined for the
\* components absent.
C15_ParsedFields ==
    (op = "fromString" /\ C15_DenotesValid(dateString))
        => (thrown = "none" /\ exists /\ self = C15_Fields(dateString))

C15_Witness ==
    /\ op = "fromString"
    /\ dateString = <<"2", "0", "2", "3", "-", "0", "5", "-", "1", "5", "T",
                      "1", "0", ":", "3", "0", ":", "4", "5", ".", "0", "0",
                      "0">>
    /\ self = Opts(Num(2023), Num(5), Num(15), Num(10), Num(30), Num(45),
                   Num(0))

\* The code unit of a character of a fuzzy-date string.
C16_CharCode(c) ==
    CASE c = "-" -> 45
      [] c = "." -> 46
      [] c = ":" -> 58
      [] c = "T" -> 84
      [] OTHER -> 48 + DigitValue(c)

\* s < t in the lexicographic order of strings.
C16_LexLess(s, t) ==
    \E i \in 1..(Len(t)) :
        /\ \A j \in 1..(i - 1) : j <= Len(s) /\ s[j] = t[j]
        /\ i > Len(s) \/ C16_CharCode(s[i]) < C16_CharCode(t[i])

\* The earliest instant of a precedes the earliest instant of b.
C16_Precedes(a, b) ==
    LET ta == Tuple(MinimallyPadded(a))
        tb == Tuple(MinimallyPadded(b))
    IN \E i \in 1..7 :
          /\ \A j \in 1..(i - 1) : ta[j] = tb[j]
          /\ ta[i] < tb[i]

\* The FuzzyDates the instance is compared with.
C16_Others ==
    {Opts(Num(y), Undefined, Undefined, Undefined, Undefined, Undefined,
          Undefined) : y \in Years}
      \cup {Opts(Num(y), Num(m), Undefined, Undefined, Undefined, Undefined,
                 Undefined) : y \in {-500, 2023, 2024}, m \in {1, 9, 10, 12}}
      \cup {Opts(Num(2024), Num(2), Num(d), Num(h), Undefined, Undefined,
                 Undefined) : d \in {1, 29}, h \in {0, 9, 23}}

\* C16: for two valid FuzzyDates of the same precision, the string of the
\* first is lexicographically smaller than the string of the second exactly
\* when the earliest instant of the first precedes that of the second.
C16_Sortable ==
    (op = "toString" /\ IsValidFuzzyDate(self))
        => \A b \in C16_Others :
              (IsValidFuzzyDate(b)
                 /\ LastDefinedIndex(b) = LastDefinedIndex(self))
                => /\ thrown = "none"
                   /\ toString(b).thrown = "none"
                   /\ C16_LexLess(retString, toString(b).str)
                        <=> C16_Precedes(self, b)

\* C17: the year is required: no instance has an undefined year, and
\* construction from options without a year fails whatever the other six
\* fields are.
C17_YearRequired ==
    /\ exists => IsDefined(self.year)
    /\ (op = "constructor" /\ ~IsDefined(options.year))
          => (thrown # "none" /\ ~exists)

\* C18: getPrecision, getEarliestPaddingOptions, getLatestPaddingOptions and
\* toString leave the seven fields of the instance unchanged, and the
\* constructor leaves the options record it is given unchanged, whether it
\* returns or throws.
C18_NoSideEffects ==
    [][/\ op' \in {"getPrecision", "getEarliestPaddingOptions",
                   "getLatestPaddingOptions", "toString"}
            => (self' = self /\ exists' = exists)
       /\ op' = "constructor" => options' = options]_vars

C18_Witness ==
    /\ op = "getEarliestPaddingOptions"
    /\ exists
    /\ self = options
    /\ self.month = Undefined
    /\ retOptions.month = Num(1)

\* The declared bounds of the domain.
C19_Earliest ==
    <<"-", "1", "0", "0", "0", "0", "0", "-", "0", "1", "-", "0", "1",
        "T", "0", "0", ":", "0", "0", ":", "0", "0", ".", "0", "0", "0">>

C19_Latest ==
    <<"9", "9", "9", "9", "9", "-", "1", "2", "-", "3", "1", "T", "2",
        "3", ":", "5", "9", ":", "5", "9", ".", "9", "9", "9">>

\* C19: fromString accepts the earliest and the latest declared string and
\* yields the corresponding seven field values, and toString of the result
\* reproduces the string.
C19_BoundsRepresentable ==
    /\ (op = "fromString" /\ dateString = C19_Earliest)
          => /\ thrown = "none"
             /\ exists
             /\ self = Opts(Num(-100000), Num(1), Num(1), Num(0), Num(0),
                            Num(0), Num(0))
    /\ (op = "fromString" /\ dateString = C19_Latest)
          => /\ thrown = "none"
             /\ exists
             /\ self = Opts(Num(99999), Num(12), Num(31), Num(23), Num(59),
                            Num(59), Num(999))
    /\ (op = "toString" /\ dateString \in {C19_Earliest, C19_Latest})
          => (thrown = "none" /\ retString = dateString)

C19_Witness ==
    /\ op = "toString"
    /\ dateString = C19_Earliest
    /\ self.year = Num(-100000)
    /\ retString = C19_Earliest

\* C20: constructing a FuzzyDuration never fails; each of the seven units of
\* the instance equals the input value when one was given, negative values
\* included, and 0 when it was omitted, and none is undefined.
C20_DurationFields ==
    op = "FuzzyDuration"
        => /\ thrown = "none"
           /\ \A i \in 1..7 :
                 /\ IsDefined(duration[DurationFields[i]])
                 /\ IsDefined(durationOptions[DurationFields[i]])
                       => duration[DurationFields[i]]
                            = durationOptions[DurationFields[i]]
                 /\ durationOptions[DurationFields[i]] = Undefined
                       => duration[DurationFields[i]] = Num(0)

C20_Witness ==
    /\ op = "FuzzyDuration"
    /\ durationOptions = DurationOpts(Num(-2), Undefined, Undefined, Num(0),
                                      Undefined, Num(5), Undefined)
    /\ duration.years = Num(-2)
    /\ duration.months = Num(0)
    /\ duration.seconds = Num(5)

\* The finest unit an options record gives a number for (0 when none).
C21_FinestGiven(o) ==
    IF \A i \in 1..7 : ~IsDefined(o[DurationFields[i]]) THEN 0
    ELSE CHOOSE i \in 1..7 :
            /\ IsDefined(o[DurationFields[i]])
            /\ \A j \in (i + 1)..7 : ~IsDefined(o[DurationFields[j]])

\* C21: the precision of a FuzzyDuration is the finest unit whose input value
\* was not empty (undefined, null, NaN), a unit passed as 0 counting as given
\* and gaps being allowed, and years when no unit was given.
C21_DurationPrecision ==
    op = "FuzzyDuration"
        => duration.precision =
             (IF C21_FinestGiven(durationOptions) = 0 THEN "years"
              ELSE DurationFields[C21_FinestGiven(durationOptions)])

C21_Witness ==
    /\ op = "FuzzyDuration"
    /\ durationOptions = DurationOpts(Num(5), Undefined, Undefined, Num(0),
                                      Undefined, Undefined, Undefined)
    /\ duration.precision = "hours"

\* Some field of the record holds a number outside the range of its unit.
C22_SomeFieldOutOfRange(o) ==
    \/ IsDefined(o.month) /\ o.month.val \notin 1..12
    \/ IsDefined(o.day) /\ o.day.val \notin 1..31
    \/ IsDefined(o.hour) /\ o.hour.val \notin 0..23
    \/ IsDefined(o.minute) /\ o.minute.val \notin 0..59
    \/ IsDefined(o.second) /\ o.second.val \notin 0..59
    \/ IsDefined(o.millisecond) /\ o.millisecond.val \notin 0..999

\* C22: the hierarchy check comes first: an options record that violates the
\* prefix rule and also holds values outside the calendar fails with
\* FuzzyDateHierarchyError, never with FuzzyDateCalendarError.
C22_HierarchyFirst ==
    (op = "constructor" /\ ~DefinedPrefix(options)
       /\ C22_SomeFieldOutOfRange(options))
        => thrown = "FuzzyDateHierarchyError"

C22_Witness ==
    /\ op = "constructor"
    /\ options.year = Num(2023)
    /\ options.month = Undefined
    /\ options.day = Num(32)
    /\ thrown = "FuzzyDateHierarchyError"

\* C23: for a valid FuzzyDate, getLatestPaddingOptions returns every defined
\* field with the value it has on the instance, and every padded field at its
\* maximum: month 12, the last day of the month, hour 23, minute 59, second
\* 59, millisecond 999.
C23_LatestKeepsPrefix ==
    (op = "getLatestPaddingOptions" /\ IsValidFuzzyDate(self))
        => /\ thrown = "none"
           /\ AllNumbers(retOptions)
           /\ \A i \in 1..7 :
                 IF IsDefined(self[Fields[i]])
                 THEN retOptions[Fields[i]] = self[Fields[i]]
                 ELSE retOptions[Fields[i]].val = FieldMax(Tuple(retOptions), i)

C23_Witness ==
    /\ op = "getLatestPaddingOptions"
    /\ self = Opts(Num(2024), Num(12), Num(31), Undefined, Undefined,
                   Undefined, Undefined)
    /\ retOptions = Opts(Num(2024), Num(12), Num(31), Num(23), Num(59),
                         Num(59), Num(999))

\* C24: for a valid FuzzyDate the earliest tuple precedes the latest tuple in
\* the order of year, month, day, hour, minute, second, millisecond, and the
\* two are equal exactly when the precision is millisecond.
C24_EarliestBeforeLatest ==
    (op = "getLatestPaddingOptions" /\ IsValidFuzzyDate(self))
        => /\ thrown = "none"
           /\ IF IsDefined(self.millisecond)
              THEN getEarliestPaddingOptions(self) = retOptions
              ELSE C16_Precedes(getEarliestPaddingOptions(self), retOptions)

C24_Witness ==
    /\ op = "getLatestPaddingOptions"
    /\ self = Opts(Num(-500), Undefined, Undefined, Undefined, Undefined,
                   Undefined, Undefined)
    /\ getEarliestPaddingOptions(self)
         = Opts(Num(-500), Num(1), Num(1), Num(0), Num(0), Num(0), Num(0))
    /\ retOptions = Opts(Num(-500), Num(12), Num(31), Num(23), Num(59),
                         Num(59), Num(999))

\* The next FuzzyDate of the same precision: the last defined field advanced
\* by one unit with carry, the undefined fields left undefined.
C25_NextFuzzyDate(x) ==
    LET k == LastDefinedIndex(x)
        t == Advance(Tuple(MinimallyPadded(x)), k)
        field(i) == IF i <= k THEN Num(t[i]) ELSE Undefined
    IN Opts(field(1), field(2), field(3), field(4), field(5), field(6),
            field(7))

\* C25: for a valid FuzzyDate of a precision coarser than millisecond, the
\* instant one millisecond after its latest tuple is the earliest tuple of the
\* next FuzzyDate of the same precision: consecutive ranges neither overlap
\* nor leave a gap.
C25_RangesTile ==
    (op = "getLatestPaddingOptions" /\ IsValidFuzzyDate(self)
       /\ LastDefinedIndex(self) < 7)
        => /\ thrown = "none"
           /\ AllNumbers(retOptions)
           /\ Constructor(C25_NextFuzzyDate(self)) = "none"
           /\ Tuple(getEarliestPaddingOptions(C25_NextFuzzyDate(self)))
                = Advance(Tuple(retOptions), 7)

C25_Witness ==
    /\ op = "getLatestPaddingOptions"
    /\ self = Opts(Num(2024), Num(12), Undefined, Undefined, Undefined,
                   Undefined, Undefined)
    /\ C25_NextFuzzyDate(self)
         = Opts(Num(2025), Num(1), Undefined, Undefined, Undefined,
                Undefined, Undefined)
    /\ retOptions = Opts(Num(2024), Num(12), Num(31), Num(23), Num(59),
                         Num(59), Num(999))

\* The FuzzyDate with the first k fields of y and the others undefined.
C26_Coarser(y, k) ==
    LET field(i) == IF i <= k THEN y[Fields[i]] ELSE Undefined
    IN Opts(field(1), field(2), field(3), field(4), field(5), field(6),
            field(7))

\* C26: ranges nest by precision: when y has the values of x on every field
\* x defines and defines finer fields as well, the earliest tuple of x does
\* not come after that of y and the latest tuple of y does not come after
\* that of x.
C26_RangesNest ==
    (op = "getLatestPaddingOptions" /\ IsValidFuzzyDate(self))
        => \A k \in 1..(LastDefinedIndex(self) - 1) :
              /\ IsValidFuzzyDate(C26_Coarser(self, k))
              /\ Constructor(C26_Coarser(self, k)) = "none"
              /\ thrown = "none"
              /\ getLatestPaddingOptions(C26_Coarser(self, k)).thrown = "none"
              /\ ~C16_Precedes(getEarliestPaddingOptions(self),
                               getEarliestPaddingOptions(C26_Coarser(self, k)))
              /\ ~C16_Precedes(
                      getLatestPaddingOptions(C26_Coarser(self, k)).value,
                      retOptions)

C26_Witness ==
    /\ op = "getLatestPaddingOptions"
    /\ self = Opts(Num(2024), Num(2), Num(29), Undefined, Undefined,
                   Undefined, Undefined)
    /\ retOptions.day = Num(29)
    /\ getLatestPaddingOptions(C26_Coarser(self, 1)).value
         = Opts(Num(2024), Num(12), Num(31), Num(23), Num(59), Num(59),
                Num(999))

\* C27: for a valid FuzzyDate, the tuple of either padding operation is
\* accepted by the constructor, the FuzzyDate made from it has precision
\* millisecond, and both padding operations return that tuple again.
C27_PaddingIsFuzzyDate ==
    (op \in {"getEarliestPaddingOptions", "getLatestPaddingOptions"}
       /\ IsValidFuzzyDate(self))
        => /\ thrown = "none"
           /\ Constructor(retOptions) = "none"
           /\ getPrecision(retOptions) = "millisecond"
           /\ getEarliestPaddingOptions(retOptions) = retOptions
           /\ getLatestPaddingOptions(retOptions)
                = [thrown |-> "none", value |-> retOptions]

C27_Witness ==
    /\ op = "getLatestPaddingOptions"
    /\ self = Opts(Num(2023), Undefined, Undefined, Undefined, Undefined,
                   Undefined, Undefined)
    /\ retOptions = Opts(Num(2023), Num(12), Num(31), Num(23), Num(59),
                         Num(59), Num(999))
    /\ Constructor(retOptions) = "none"
    /\ getPrecision(retOptions) = "millisecond"

C29_Rank(o) == CHOOSE i \in 1..7 : Fields[i] = getPrecision(o)

\* The number of components of a string: one more than its separators.
C29_Components(s) ==
    1 + Cardinality({i \in 2..Len(s) : s[i] \in {"-", "T", ":", "."}})

\* C29: the operations agree on which fields are present, for every FuzzyDate
\* the constructor accepts, also one built with null for the absent fields:
\* toString does not fail and emits as many components as the rank of
\* getPrecision, and the padding operations pad exactly the fields after it.
C29_OperationsAgree ==
    /\ op = "toString"
          => (thrown = "none"
                /\ C29_Components(retString) = C29_Rank(self))
    /\ op = "getEarliestPaddingOptions"
          => \A i \in 2..7 :
                retOptions[Fields[i]] =
                    (IF i <= C29_Rank(self) THEN self[Fields[i]]
                     ELSE Num(FieldMin(i)))
    /\ op = "getLatestPaddingOptions"
          => (thrown = "none"
                /\ \A i \in (C29_Rank(self) + 1)..7 :
                      retOptions[Fields[i]]
                        = Num(FieldMax(Tuple(retOptions), i)))

\* C30: in fromString, a string that has passed the format check has 1 to 3
\* date components and 1 to 3 time components that all parse to integers, so
\* the constructor is reached, and every FuzzyDateDeserializationError comes
\* from the format check.
C30_OnlyFormatCheckThrows ==
    op = "fromString"
        => /\ C13_InGrammar(dateString)
                => /\ ParseString(dateString).thrown = "none"
                   /\ fromString(dateString).site = "constructor"
           /\ thrown = "FuzzyDateDeserializationError"
                => fromString(dateString).site = "format"

C30_Witness ==
    /\ op = "fromString"
    /\ dateString = <<"2", "0", "2", "3", "-", "0", "5", "-", "1", "5", "T",
                      "1", "0", ":", "3", "0", ":", "4", "5", ".", "5", "0",
                      "0">>
    /\ fromString(dateString).site = "constructor"
    /\ self.millisecond = Num(500)

====
